---- MODULE Spec2Model ----
(***************************************************************************)
(* i.segment.hierarchical: hierarchical segmentation driver.               *)
(*                                                                         *)
(* Spec       the script's main program: option clean-up, the sequential   *)
(*            driver segment(), and the tiled driver SegModule (tile       *)
(*            workers, then SegModule.patch: rpatch_map + one i.segment    *)
(*            over the whole region).                                      *)
(* SpecPatch  rpatch_map / rpatch_row step by step on a tile grid.         *)
(* SpecOrder  the same, preceded by the tile workers finishing in any      *)
(*            order.                                                       *)
(*                                                                         *)
(* Thresholds are in thousandths (24 is 0.024).  A raster name is a record  *)
(* [base, val]: a prefix such as seg__%.2f applied to a threshold keeps    *)
(* the threshold rounded to hundredths in val.                             *)
(***************************************************************************)
EXTENDS Integers, Sequences, FiniteSets, TLC

\* ------------------------------------------------------------------------
\* Bounds of the model
\* ------------------------------------------------------------------------
MaxThr == 3
MaxOptLen == 3

ThresholdChoices == {24, 50}
Digits == {"2", "5"}
MemoryChoices == {300, 5}
ProcessChoices == {1, 2, 3}
IterationChoices == {20, 7}
Tiles == {1, 2}

VARIABLES
  \* options as given on the command line
  thresholds,      \* OPTS['thresholds'], already split and converted
  minsizes,        \* OPTS['minsizes']: the option string, a sequence of characters
  seedsOpt,        \* OPTS['seeds']: a raster name, or NoName
  tiled,           \* WIDTH and HEIGHT are both given
  iterations,      \* OPTS['iterations']
  memory,          \* MEMORY
  processes,       \* PROCESSES
  \* main program
  pc,
  MINSIZES,
  optsMemory,      \* OPTS['memory'] after line 272
  selfMemory,      \* SegModule.memory
  k,               \* position of segment()'s loop
  seeds,           \* segment()'s local seeds
  log,             \* what the coordinating process invoked, in order
  \* tile workers
  wst, wk, wseeds, wlog

dvars == <<thresholds, minsizes, seedsOpt, tiled, iterations, memory, processes, pc,
           MINSIZES, optsMemory, selfMemory, k, seeds, log,
           wst, wk, wseeds, wlog>>

VARIABLES
  \* the region and its tiles
  rows, cols,      \* the region: Region().rows, Region().cols
  width, height,   \* the tile size
  overlap,         \* the overlap the tile workers ran with
  tilemax,         \* tile position -> largest label of the tile's raster
  mapsets,         \* tile position -> the raster its worker has written
  completed,       \* the tile positions in the order their workers finished
  \* rpatch_map / rpatch_row
  ppc,
  trow, tcol,      \* row, col of rpatch_map's loops (from 1)
  mrast, max_rasts, rrasts,
  r, r_end,        \* rpatch_row's row loop
  rbuff,
  out,             \* the rows put to the output raster, in order
  applied          \* tile position -> the offset added to its cells (-1: none yet)

pvars == <<rows, cols, width, height, overlap, tilemax, mapsets, completed,
           ppc, trow, tcol, mrast, max_rasts, rrasts, r, r_end, rbuff, out, applied>>

vars == <<dvars, pvars>>

\* ------------------------------------------------------------------------
\* Names and option strings
\* ------------------------------------------------------------------------
NoName == [base |-> "", val |-> 0]
SeedName == [base |-> "seeds", val |-> 0]
OutputName == [base |-> "output", val |-> 0]

\* '%.2f' % thr: a value in thousandths rounded to hundredths
Fmt2(thr) == (thr + 5) \div 10

\* outputs_prefix % thr
Prefixed(thr) == [base |-> "seg__", val |-> Fmt2(thr)]

RECURSIVE SplitComma(_)
\* str.split(','): the pieces between the commas
SplitComma(s) ==
  IF \A i \in 1..Len(s) : s[i] # ","
  THEN <<s>>
  ELSE LET p == CHOOSE i \in 1..Len(s) :
                  s[i] = "," /\ \A j \in 1..(i-1) : s[j] # ","
       IN <<SubSeq(s, 1, p - 1)>> \o SplitComma(SubSeq(s, p + 1, Len(s)))

DigitVal(c) == IF c = "2" THEN 2 ELSE 5

RECURSIVE ToInt(_)
\* int(m) of a string of digits
ToInt(ds) ==
  IF Len(ds) = 0 THEN 0
  ELSE 10 * ToInt(SubSeq(ds, 1, Len(ds) - 1)) + DigitVal(ds[Len(ds)])

\* [x] * n
Repeat(x, n) == [i \in 1..n |-> x]

\* Option strings the parser accepts for a multiple integer option: empty
\* (not given), or numbers separated by single commas.
WellFormed(s) ==
  \/ s = <<>>
  \/ /\ s[1] # "," /\ s[Len(s)] # ","
     /\ \A i \in 1..(Len(s) - 1) : ~(s[i] = "," /\ s[i+1] = ",")

StringsUpTo(n) == UNION {[1..m -> Digits \cup {","}] : m \in 0..n}

\* A clean-up that repeats the first value whatever the length given
CleanMinsizesAlwaysFirst(opt, thrs) ==
  IF opt # <<>>
  THEN Repeat(ToInt(SplitComma(opt)[1]), Len(thrs))
  ELSE Repeat(1, Len(thrs))

\* A clean-up that keeps a list of another length as it is given
CleanMinsizesKeep(opt, thrs) ==
  IF opt # <<>>
  THEN [i \in 1..Len(SplitComma(opt)) |-> ToInt(SplitComma(opt)[i])]
  ELSE Repeat(1, Len(thrs))

\* lines 261-266
CleanMinsizes(opt, thrs) ==
  IF opt # <<>>
  THEN LET ms == [i \in 1..Len(SplitComma(opt)) |-> ToInt(SplitComma(opt)[i])]
       IN IF Len(ms) # Len(thrs) THEN Repeat(ms[1], Len(thrs)) ELSE ms
  ELSE Repeat(1, Len(thrs))

\* line 272 (Python 2: / of two ints is floor division)
PerProcessMemory(m, p) == m \div p

\* ------------------------------------------------------------------------
\* The main program
\* ------------------------------------------------------------------------
opts == <<thresholds, minsizes, seedsOpt, tiled, iterations, memory, processes>>
wvars == <<wst, wk, wseeds, wlog>>

\* One invocation of i.segment, or one call of rpatch_map, as logged
Invocation(o, t, ms, sd, outp, mem, it) ==
  [op |-> o, threshold |-> t, minsize |-> ms, seeds |-> sd, output |-> outp,
   memory |-> mem, iterations |-> it]

DriverInit ==
  /\ thresholds \in UNION {[1..n -> ThresholdChoices] : n \in 1..MaxThr}
  /\ minsizes \in {s \in StringsUpTo(MaxOptLen) : WellFormed(s)}
  /\ seedsOpt \in {NoName, SeedName}
  /\ tiled \in BOOLEAN
  /\ iterations \in IterationChoices
  /\ memory \in MemoryChoices
  /\ processes \in ProcessChoices
  /\ pc = "start"
  /\ MINSIZES = <<>>
  /\ optsMemory = 0
  /\ selfMemory = 0
  /\ k = 0
  /\ seeds = NoName
  /\ log = <<>>
  /\ wst = [w \in Tiles |-> "queued"]
  /\ wk = [w \in Tiles |-> 0]
  /\ wseeds = [w \in Tiles |-> NoName]
  /\ wlog = [w \in Tiles |-> <<>>]

\* lines 250-272: clean the options
Main ==
  /\ pc = "start"
  /\ MINSIZES' = CleanMinsizes(minsizes, thresholds)
  /\ optsMemory' = PerProcessMemory(memory, processes)
  /\ pc' = "cleaned"
  /\ UNCHANGED <<pvars, opts, selfMemory, k, seeds, log, wvars>>

\* lines 280-283 and 235-236: no tiling, enter segment()
MainSequential ==
  /\ pc = "cleaned"
  /\ ~tiled
  /\ seeds' = (IF seedsOpt # NoName THEN seedsOpt ELSE NoName)
  /\ k' = 1
  /\ pc' = "segment"
  /\ UNCHANGED <<pvars, opts, MINSIZES, optsMemory, selfMemory, log, wvars>>

\* zip(thresholds, minsizes) stops at the shorter list
ZipLen(a, b) == IF Len(a) <= Len(b) THEN Len(a) ELSE Len(b)

\* lines 238-242: the options of the i-th invocation of segment()'s loop
SegmentCall(i, sd, thrs, mss, mem, it) ==
  Invocation("i.segment", thrs[i], mss[i], sd, Prefixed(thrs[i]), mem, it)

\* A loop that never updates its seeds
NextSeedsStale(call) == call.seeds

\* line 246: the seeds of the next iteration
NextSeeds(call) == call.output

\* lines 237-246: one iteration of segment()'s loop
SegmentStep ==
  /\ pc = "segment"
  /\ k <= ZipLen(thresholds, MINSIZES)
  /\ LET call == SegmentCall(k, seeds, thresholds, MINSIZES, optsMemory, iterations)
     IN /\ log' = Append(log, call)
        /\ seeds' = NextSeeds(call)
  /\ k' = k + 1
  /\ UNCHANGED <<pvars, opts, pc, MINSIZES, optsMemory, selfMemory, wvars>>

\* line 237: the loop is exhausted, segment() returns and the script ends
SegmentReturn ==
  /\ pc = "segment"
  /\ k > ZipLen(thresholds, MINSIZES)
  /\ pc' = "done"
  /\ UNCHANGED <<pvars, opts, MINSIZES, optsMemory, selfMemory, k, seeds, log, wvars>>

\* lines 199-201: what SegModule.__init__ keeps as self.memory
InitMemory(kwargsMemory) == kwargsMemory

\* lines 273-279: tiling requested, build SegModule and start run()
MainTiled ==
  /\ pc = "cleaned"
  /\ tiled
  /\ selfMemory' = InitMemory(optsMemory)
  /\ pc' = "workers"
  /\ UNCHANGED <<pvars, opts, MINSIZES, optsMemory, k, seeds, log, wvars>>

Running == {w \in Tiles : wst[w] = "running"}

\* GridModule.run: a pool of `processes` workers takes the next tile
WorkerStart(w) ==
  /\ pc = "workers"
  /\ wst[w] = "queued"
  /\ Cardinality(Running) < processes
  /\ wst' = [wst EXCEPT ![w] = "running"]
  /\ wk' = [wk EXCEPT ![w] = 1]
  /\ wseeds' = [wseeds EXCEPT ![w] = IF seedsOpt # NoName THEN seedsOpt ELSE NoName]
  /\ UNCHANGED <<pvars, opts, pc, MINSIZES, optsMemory, selfMemory, k, seeds, log, wlog>>

\* The tile's command is this script without width and height: segment() on
\* the tile, with the module's cleaned inputs
WorkerStep(w) ==
  /\ pc = "workers"
  /\ wst[w] = "running"
  /\ wk[w] <= ZipLen(thresholds, MINSIZES)
  /\ LET call == SegmentCall(wk[w], wseeds[w], thresholds, MINSIZES, optsMemory, iterations)
     IN /\ wlog' = [wlog EXCEPT ![w] = Append(@, call)]
        /\ wseeds' = [wseeds EXCEPT ![w] = NextSeeds(call)]
  /\ wk' = [wk EXCEPT ![w] = @ + 1]
  /\ UNCHANGED <<pvars, opts, pc, MINSIZES, optsMemory, selfMemory, k, seeds, log, wst>>

WorkerFinish(w) ==
  /\ pc = "workers"
  /\ wst[w] = "running"
  /\ wk[w] > ZipLen(thresholds, MINSIZES)
  /\ wst' = [wst EXCEPT ![w] = "done"]
  /\ UNCHANGED <<pvars, opts, pc, MINSIZES, optsMemory, selfMemory, k, seeds, log, wk, wseeds, wlog>>

\* GridModule.run: every worker has returned, patch() is called
RunPatch ==
  /\ pc = "workers"
  /\ \A w \in Tiles : wst[w] = "done"
  /\ pc' = "patch"
  /\ UNCHANGED <<pvars, opts, MINSIZES, optsMemory, selfMemory, k, seeds, log, wvars>>

Last(s) == s[Len(s)]

\* A patch of the first threshold's rasters
PatchRasterFirst(thrs) == Prefixed(thrs[1])

\* line 210: the raster rpatch_map patches
PatchRaster(thrs) == Prefixed(Last(thrs))

\* lines 206-214: patch the tiles' rasters of the last threshold
PatchTiles ==
  /\ pc = "patch"
  /\ log' = Append(log, Invocation("rpatch_map", Last(thresholds), 0, NoName,
                                   PatchRaster(thresholds), 0, 0))
  /\ pc' = "consolidate"
  /\ UNCHANGED <<pvars, opts, MINSIZES, optsMemory, selfMemory, k, seeds, wvars>>

ConsolidationIterations == 3

\* lines 219-229: the options of the whole-region i.segment of patch()
ConsolidationCall(thrs, mss, mem) ==
  Invocation("i.segment", Last(thrs), Last(mss), Prefixed(Last(thrs)),
             OutputName, mem, ConsolidationIterations)

\* lines 216-230: segment the whole region once more; run() returns
Consolidate ==
  /\ pc = "consolidate"
  /\ log' = Append(log, ConsolidationCall(thresholds, MINSIZES, selfMemory))
  /\ pc' = "done"
  /\ UNCHANGED <<pvars, opts, MINSIZES, optsMemory, selfMemory, k, seeds, wvars>>

DriverNext ==
  \/ Main
  \/ MainSequential
  \/ SegmentStep
  \/ SegmentReturn
  \/ MainTiled
  \/ \E w \in Tiles : WorkerStart(w)
  \/ \E w \in Tiles : WorkerStep(w)
  \/ \E w \in Tiles : WorkerFinish(w)
  \/ RunPatch
  \/ PatchTiles
  \/ Consolidate

\* ------------------------------------------------------------------------
\* The tile grid
\* ------------------------------------------------------------------------
MaxRows == 3
MaxCols == 3
MaxTiles == 4

LabelChoices == {0, 2, 4, 9, 14}
OrderLabelChoices == {4, 9}
OverlapChoices == {0, 1}

Min(a, b) == IF a <= b THEN a ELSE b
Max(a, b) == IF a >= b THEN a ELSE b

\* The region has resolution 1, south = 0 and west = 0, so north = rows and
\* east = cols.
\* grid.split.get_bbox: the box of tile (row, col), both from 0
get_bbox(nrows, ncols, row, col, w, h, ov) ==
  [north |-> Min(nrows - (row * h - ov), nrows),
   south |-> Max(nrows - ((row + 1) * h + ov), 0),
   east  |-> Min((col + 1) * w + ov, ncols),
   west  |-> Max(col * w - ov, 0)]

\* grid.split.split_region_tiles: rows of boxes, north to south, west to east
split_region_tiles(nrows, ncols, w, h, ov) ==
  [i \in 1..((nrows + h - 1) \div h) |->
     [j \in 1..((ncols + w - 1) \div w) |->
        get_bbox(nrows, ncols, i - 1, j - 1, w, h, ov)]]

\* grid.patch.get_start_end_index: a box as (r_start, r_end, c_start, c_end)
StartEndIndex(nrows, bbox) ==
  [r_start |-> nrows - bbox.north, r_end |-> nrows - bbox.south,
   c_start |-> bbox.west, c_end |-> bbox.east]

\* line 154
get_start_end_index(nrows, bboxes) ==
  [j \in 1..Len(bboxes) |-> StartEndIndex(nrows, bboxes[j])]

\* line 206: the boxes patch() hands to rpatch_map (no overlap is passed)
bbox_list == split_region_tiles(rows, cols, width, height, 0)

Positions(nrows, ncols, w, h) ==
  {<<i, j>> : i \in 1..((nrows + h - 1) \div h), j \in 1..((ncols + w - 1) \div w)}

Pos == Positions(rows, cols, width, height)

\* The raster a tile's worker writes: labelled over the tile's box (overlap
\* included), null elsewhere; its largest label is in the first cell of the
\* tile proper.
NullCell == [val |-> -1, tile |-> <<0, 0>>, row |-> -1, col |-> -1]

TileRaster(p, mx) == [pos |-> p, max |-> mx]

Cell(ras, row, col) ==
  LET ext == StartEndIndex(rows, get_bbox(rows, cols, ras.pos[1] - 1, ras.pos[2] - 1,
                                          width, height, overlap))
      core == StartEndIndex(rows, get_bbox(rows, cols, ras.pos[1] - 1, ras.pos[2] - 1,
                                           width, height, 0))
  IN IF /\ ext.r_start <= row /\ row < ext.r_end
        /\ ext.c_start <= col /\ col < ext.c_end
     THEN [val |-> IF (row + col - core.r_start - core.c_start) % 2 = 0
                   THEN ras.max ELSE ras.max \div 2,
           tile |-> ras.pos, row |-> row, col |-> col]
     ELSE NullCell

\* RasterRow.get_row(row): one row of the raster over the whole region
get_row(ras, row) == [c \in 0..(cols - 1) |-> Cell(ras, row, c)]

NoRaster == [pos |-> <<0, 0>>, max |-> -1]

\* ------------------------------------------------------------------------
\* rpatch_map and rpatch_row
\* ------------------------------------------------------------------------
geometry == <<rows, cols, width, height, overlap, tilemax>>

GridInit(labels) ==
  /\ rows \in 1..MaxRows
  /\ cols \in 1..MaxCols
  /\ width \in 1..cols
  /\ height \in 1..rows
  /\ overlap \in OverlapChoices
  /\ Cardinality(Positions(rows, cols, width, height)) <= MaxTiles
  /\ tilemax \in [Positions(rows, cols, width, height) -> labels]

RpatchIdle ==
  /\ trow = 0 /\ tcol = 0
  /\ mrast = 0 /\ max_rasts = <<>> /\ rrasts = <<>>
  /\ r = 0 /\ r_end = 0
  /\ rbuff = <<>>
  /\ out = <<>>
  /\ applied = [p \in Pos |-> -1]

RECURSIVE RowMajor(_, _, _)
\* the positions of a grid of nr rows of nc tiles, row by row
RowMajor(nr, nc, n) ==
  IF n > nr * nc THEN <<>>
  ELSE <<<<((n - 1) \div nc) + 1, ((n - 1) % nc) + 1>>>> \o RowMajor(nr, nc, n + 1)

\* The state rpatch_map starts in: every tile's worker has written its raster
PatchInit ==
  /\ GridInit(LabelChoices)
  /\ mapsets = [p \in Pos |-> TileRaster(p, tilemax[p])]
  /\ completed = RowMajor(Len(bbox_list), Len(bbox_list[1]), 1)
  /\ ppc = "start"
  /\ RpatchIdle

\* The state the tile workers start in
OrderInit ==
  /\ GridInit(OrderLabelChoices)
  /\ mapsets = [p \in Pos |-> NoRaster]
  /\ completed = <<>>
  /\ ppc = "dispatch"
  /\ RpatchIdle

\* A tile's worker finishes: its raster is in the tile's mapset
WorkerDone(p) ==
  /\ ppc = "dispatch"
  /\ mapsets[p] = NoRaster
  /\ mapsets' = [mapsets EXCEPT ![p] = TileRaster(p, tilemax[p])]
  /\ completed' = Append(completed, p)
  /\ UNCHANGED <<dvars, geometry, ppc, trow, tcol, mrast, max_rasts, rrasts, r, r_end,
                 rbuff, out, applied>>

\* GridModule.run: every worker has returned, patch() is called
RunJoin ==
  /\ ppc = "dispatch"
  /\ \A p \in Pos : mapsets[p] # NoRaster
  /\ ppc' = "start"
  /\ UNCHANGED <<dvars, geometry, mapsets, completed, trow, tcol, mrast, max_rasts, rrasts,
                 r, r_end, rbuff, out, applied>>

\* lines 172-177: open the output raster, mrast = 0, first row of boxes
RpatchOpen ==
  /\ ppc = "start"
  /\ out' = <<>>
  /\ mrast' = 0
  /\ trow' = 1 /\ tcol' = 1
  /\ rrasts' = <<>> /\ max_rasts' = <<>>
  /\ ppc' = "tiles"
  /\ UNCHANGED <<dvars, geometry, mapsets, completed, r, r_end, rbuff, applied>>

\* A patcher that takes the tiles' rasters in the order the workers finished
RasterOfByCompletion(row, col) ==
  mapsets[completed[(row - 1) * Len(bbox_list[1]) + col]]

\* lines 181-183: the raster of the tile at (row, col): mset_str % (row, col)
RasterOf(row, col) == mapsets[<<row, col>>]

\* lines 185-186: the offset appended to max_rasts for a raster just opened
OffsetOf(counter, ras) == counter + ras.max + 1

\* line 185: mrast after the raster is counted
Counted(counter, ras) == counter + ras.max + 1

\* lines 180-186: open the next raster of the row and count its labels
OpenTile ==
  /\ ppc = "tiles"
  /\ tcol <= Len(bbox_list[trow])
  /\ LET ras == RasterOf(trow, tcol)
     IN /\ rrasts' = Append(rrasts, ras)
        /\ mrast' = Counted(mrast, ras)
        /\ max_rasts' = Append(max_rasts, OffsetOf(mrast, ras))
  /\ tcol' = tcol + 1
  /\ UNCHANGED <<dvars, geometry, mapsets, completed, ppc, trow, r, r_end, rbuff, out, applied>>

\* line 158: the rows rpatch_row loops over are those of the first box
RowRange(sei) == <<sei[1].r_start, sei[1].r_end>>

\* lines 187-188 and 154-158: the row of rasters is open, enter rpatch_row.
\* rasts[0][0] builds a new buffer at each use, so buff and rbuff are two
\* buffers, both holding row 0 of the first raster.
RowStart ==
  /\ ppc = "tiles"
  /\ tcol > Len(bbox_list[trow])
  /\ LET sei == get_start_end_index(rows, bbox_list[trow])
     IN /\ r' = RowRange(sei)[1]
        /\ r_end' = RowRange(sei)[2]
  /\ rbuff' = [cells |-> get_row(rrasts[1], 0),
               writes |-> [c \in 0..(cols - 1) |-> 0]]
  /\ ppc' = "rows"
  /\ UNCHANGED <<dvars, geometry, mapsets, completed, trow, tcol, mrast, max_rasts, rrasts,
                 out, applied>>

AddOffset(cell, off) == [cell EXCEPT !.val = @ + off]

\* A patch that assigns the whole buffer: rbuff[:] = buff + offset
SliceAssignAll(buf, src, c_start, c_end, off) ==
  [cells |-> [c \in 0..(cols - 1) |-> AddOffset(src[c], off)],
   writes |-> [c \in 0..(cols - 1) |-> buf.writes[c] + 1]]

\* line 163: rbuff[c_start:c_end] = buff[c_start:c_end] + offset
SliceAssign(buf, src, c_start, c_end, off) ==
  [cells |-> [c \in 0..(cols - 1) |->
                IF c_start <= c /\ c < c_end THEN AddOffset(src[c], off)
                ELSE buf.cells[c]],
   writes |-> [c \in 0..(cols - 1) |->
                IF c_start <= c /\ c < c_end THEN buf.writes[c] + 1
                ELSE buf.writes[c]]]

RECURSIVE PatchCols(_, _, _, _, _, _)
\* lines 160-163: the rasters of the row, from col on, patched into buf
PatchCols(buf, rasts, sei, offs, row, col) ==
  IF col > Len(rasts) THEN buf
  ELSE PatchCols(SliceAssign(buf, get_row(rasts[col], row),
                             sei[col].c_start, sei[col].c_end, offs[col]),
                 rasts, sei, offs, row, col + 1)

\* lines 159-164: one row of the region: patch every raster in, put the row
PatchRow ==
  /\ ppc = "rows"
  /\ r < r_end
  /\ LET sei == get_start_end_index(rows, bbox_list[trow])
         fresh == [rbuff EXCEPT !.writes = [c \in 0..(cols - 1) |-> 0]]
         buf == PatchCols(fresh, rrasts, sei, max_rasts, r, 1)
     IN /\ rbuff' = buf
        /\ out' = Append(out, [row |-> r, cells |-> buf.cells, writes |-> buf.writes])
  /\ applied' = [p \in Pos |-> IF p[1] = trow THEN max_rasts[p[2]] ELSE applied[p]]
  /\ r' = r + 1
  /\ UNCHANGED <<dvars, geometry, mapsets, completed, ppc, trow, tcol, mrast, max_rasts,
                 rrasts, r_end>>

\* line 177: rpatch_row has returned, the next row of boxes
RowEnd ==
  /\ ppc = "rows"
  /\ r >= r_end
  /\ trow < Len(bbox_list)
  /\ trow' = trow + 1
  /\ tcol' = 1
  /\ rrasts' = <<>> /\ max_rasts' = <<>>
  /\ ppc' = "tiles"
  /\ UNCHANGED <<dvars, geometry, mapsets, completed, mrast, r, r_end, rbuff, out, applied>>

\* lines 190-193: no row of boxes is left, close the rasters
RpatchClose ==
  /\ ppc = "rows"
  /\ r >= r_end
  /\ trow = Len(bbox_list)
  /\ ppc' = "closed"
  /\ UNCHANGED <<dvars, geometry, mapsets, completed, trow, tcol, mrast, max_rasts, rrasts,
                 r, r_end, rbuff, out, applied>>

PatchNext ==
  \/ RpatchOpen
  \/ OpenTile
  \/ RowStart
  \/ PatchRow
  \/ RowEnd
  \/ RpatchClose

OrderNext ==
  \/ \E p \in Pos : WorkerDone(p)
  \/ RunJoin
  \/ PatchNext

\* ------------------------------------------------------------------------
\* Specifications
\* ------------------------------------------------------------------------
\* The main program, with no grid in hand
GridIdle ==
  /\ rows = 1 /\ cols = 1 /\ width = 1 /\ height = 1 /\ overlap = 0
  /\ tilemax = [p \in Positions(1, 1, 1, 1) |-> 0]
  /\ mapsets = [p \in Positions(1, 1, 1, 1) |-> NoRaster]
  /\ completed = <<>>
  /\ ppc = "idle"
  /\ RpatchIdle

\* rpatch_map alone, with no main program around it
DriverIdle ==
  /\ thresholds = <<>> /\ minsizes = <<>> /\ seedsOpt = NoName
  /\ tiled = TRUE /\ iterations = 0 /\ memory = 0 /\ processes = 1
  /\ pc = "patch"
  /\ MINSIZES = <<>> /\ optsMemory = 0 /\ selfMemory = 0
  /\ k = 0 /\ seeds = NoName /\ log = <<>>
  /\ wst = [w \in Tiles |-> "done"]
  /\ wk = [w \in Tiles |-> 0]
  /\ wseeds = [w \in Tiles |-> NoName]
  /\ wlog = [w \in Tiles |-> <<>>]

Init == DriverInit /\ GridIdle
Spec == Init /\ [][DriverNext]_vars

InitPatch == PatchInit /\ DriverIdle
SpecPatch == InitPatch /\ [][PatchNext]_vars

InitOrder == OrderInit /\ DriverIdle
SpecOrder == InitOrder /\ [][OrderNext]_vars

\* ------------------------------------------------------------------------
\* Properties of the main program (checked under Spec)
\* ------------------------------------------------------------------------
N == Len(thresholds)

\* The values of an option string, read off the positions of its commas
CommaIdx(s) == {i \in 1..Len(s) : s[i] = ","}
NumValues(s) == IF s = <<>> THEN 0 ELSE Cardinality(CommaIdx(s)) + 1
Bound(s, j) ==
  IF j = 0 THEN 0
  ELSE IF j = NumValues(s) THEN Len(s) + 1
  ELSE CHOOSE i \in CommaIdx(s) : Cardinality({c \in CommaIdx(s) : c < i}) = j - 1
RECURSIVE Decimal(_, _, _)
Decimal(s, from, to) ==
  IF from > to THEN 0
  ELSE Decimal(s, from, to - 1) * 10 + (IF s[to] = "2" THEN 2 ELSE 5)
ValueAt(s, j) == Decimal(s, Bound(s, j - 1) + 1, Bound(s, j) - 1)

\* more than one min-size given, and not one per threshold
Mismatch == NumValues(minsizes) > 1 /\ NumValues(minsizes) # N

NoWorkStarted ==
  /\ log = <<>>
  /\ \A w \in Tiles : wst[w] = "queued" /\ wlog[w] = <<>>
  /\ pc \in {"start", "cleaned"}

\* The seed chain of segment(): invocation i of `calls` has threshold t[i],
\* min-size m[i], output prefix % t[i]; the first is seeded by the seed given
\* (or none), every later one by the output of the one before it.
SeedChain(calls) ==
  /\ Len(calls) <= N
  /\ \A i \in 1..Len(calls) :
       /\ calls[i].op = "i.segment"
       /\ calls[i].threshold = thresholds[i]
       /\ calls[i].minsize = MINSIZES[i]
       /\ calls[i].output = [base |-> "seg__", val |-> Fmt2(thresholds[i])]
       /\ calls[i].seeds = (IF i = 1 THEN seedsOpt ELSE calls[i-1].output)

\* C5: without tiling, i.segment is invoked once per threshold in list
\* order, invocation k with t[k], m[k] and output prefix % t[k]; the first
\* is seeded by the given seed raster if any (none otherwise), every later
\* one by the output name of the invocation before it; a finished run has
\* made exactly n invocations.
C5_SequentialSeedChain ==
  ~tiled =>
    /\ SeedChain(log)
    /\ Len(MINSIZES) \in {0, N}
    /\ pc = "segment" => Len(log) = k - 1
    /\ pc = "done" => Len(log) = N

C5_Witness ==
  /\ ~tiled /\ pc = "done" /\ seedsOpt = SeedName
  /\ Len(log) = 3
  /\ log[1].seeds = SeedName
  /\ log[3].seeds = log[2].output
  /\ log[2].output # log[3].output

\* C10: once the options are cleaned the min-size list has one entry per
\* threshold: all 1 when minsizes is not given, the single value repeated
\* when one value is given, and the given list when it has exactly one
\* value per threshold.
C10_MinsizeNormalisation ==
  pc # "start" =>
    /\ Len(MINSIZES) = N
    /\ NumValues(minsizes) = 0 => \A i \in 1..N : MINSIZES[i] = 1
    /\ NumValues(minsizes) = 1 => \A i \in 1..N : MINSIZES[i] = ValueAt(minsizes, 1)
    /\ NumValues(minsizes) = N => \A i \in 1..N : MINSIZES[i] = ValueAt(minsizes, i)
    /\ (minsizes = <<"5">> /\ N = 3) => MINSIZES = <<5, 5, 5>>
    /\ (minsizes = <<>> /\ N = 2) => MINSIZES = <<1, 1>>

C10_Witness ==
  /\ pc = "cleaned"
  /\ minsizes = <<"2", ",", "5">>
  /\ MINSIZES = <<2, 5>>

\* C9 as claimed: a min-size list of more than one value whose length is
\* not that of thresholds aborts the run before any segmentation, tiling
\* or patching is started.
C9_MismatchAborts == Mismatch => NoWorkStarted

\* C9 as the code has it: such a list is no error; the first value given
\* is repeated once per threshold, the run goes on, and every invocation
\* of i.segment gets that first value as its min-size.
C9_MismatchBroadcastsFirst ==
  Mismatch =>
    /\ pc # "start" => MINSIZES = [i \in 1..N |-> ValueAt(minsizes, 1)]
    /\ \A i \in 1..Len(log) :
         log[i].op = "i.segment" => log[i].minsize = ValueAt(minsizes, 1)
    /\ \A w \in Tiles : \A i \in 1..Len(wlog[w]) :
         wlog[w][i].minsize = ValueAt(minsizes, 1)
    /\ pc # "done" => ENABLED DriverNext
    /\ (pc = "done" /\ ~tiled) => Len(log) = N

C9_Witness ==
  /\ Mismatch /\ pc = "done" /\ ~tiled
  /\ minsizes = <<"2", ",", "5">>
  /\ Len(log) = 3
  /\ log[2].minsize = 2

\* C4 as claimed: in tiled mode a finished run over n thresholds has made,
\* for every index i in order, a patch of the rasters of t[i] and then one
\* whole-region i.segment with t[i] and m[i] seeded by that patched raster,
\* the last one writing the declared output: n patches, n consolidations.
C4_PatchPerThreshold ==
  (tiled /\ pc = "done") =>
    /\ Len(log) = 2 * N
    /\ \A i \in 1..N :
         /\ log[2*i - 1].op = "rpatch_map"
         /\ log[2*i - 1].threshold = thresholds[i]
         /\ log[2*i].op = "i.segment"
         /\ log[2*i].threshold = thresholds[i]
         /\ log[2*i].minsize = MINSIZES[i]
         /\ log[2*i].seeds = log[2*i - 1].output
    /\ log[2 * N].output = OutputName

\* C4 as the code has it: in tiled mode every tile worker runs the whole
\* threshold list itself (the seed chain of segment(), on its tile); only
\* after every worker has finished does the driver patch, once, the tiles'
\* rasters of the last threshold, and then invoke i.segment once over the
\* whole region with the last threshold and the last min-size, seeded by
\* the patched raster and writing the declared output: 1 patch and
\* 1 consolidation whatever n is.
C4_OnePatchOfLastThreshold ==
  tiled =>
    /\ \A w \in Tiles : SeedChain(wlog[w])
    /\ log # <<>> => \A w \in Tiles : wst[w] = "done" /\ Len(wlog[w]) = N
    /\ Len(log) <= 2
    /\ Len(log) >= 1 =>
         /\ log[1].op = "rpatch_map"
         /\ log[1].output = [base |-> "seg__", val |-> Fmt2(thresholds[N])]
    /\ Len(log) = 2 =>
         /\ log[2].op = "i.segment"
         /\ log[2].threshold = thresholds[N]
         /\ log[2].minsize = MINSIZES[N]
         /\ log[2].seeds = log[1].output
         /\ log[2].output = OutputName
    /\ pc = "done" <=> Len(log) = 2

C4_Witness ==
  /\ tiled /\ pc = "done" /\ N = 3
  /\ thresholds[1] = 24 /\ thresholds[3] = 50
  /\ Len(log) = 2
  /\ log[1].output.val = 5

\* C7 as claimed: the whole-region i.segment of patch() gets the total
\* memory MEMORY, not MEMORY / PROCESSES, and 3 iterations whatever the
\* iterations option is.
C7_ConsolidationFullMemory ==
  tiled =>
    \A i \in 1..Len(log) :
      log[i].op = "i.segment" =>
        /\ log[i].memory = memory
        /\ log[i].iterations = 3

\* ------------------------------------------------------------------------
\* Properties of rpatch_map (checked under SpecPatch and SpecOrder)
\* ------------------------------------------------------------------------
\* a comes before b in row-major order
Before(a, b) == a[1] < b[1] \/ (a[1] = b[1] /\ a[2] < b[2])

RECURSIVE SumLabels(_)
\* the sum of max_label + 1 over a set of tiles
SumLabels(S) ==
  IF S = {} THEN 0
  ELSE LET q == CHOOSE x \in S : TRUE
       IN tilemax[q] + 1 + SumLabels(S \ {q})

SumBefore(p) == SumLabels({q \in Pos : Before(q, p)})
SumUpTo(p) == SumLabels({q \in Pos : q = p \/ Before(q, p)})

\* the tile whose core span holds cell (row, col) of the region
Owner(row, col) == <<(row \div height) + 1, (col \div width) + 1>>

\* C1 as claimed: for any two tiles a before b in row-major order, the
\* offset added to b's cells is at least the offset added to a's cells plus
\* a's largest label plus 1, so the shifted label ranges never intersect.
C1_OffsetsKeepRangesApart ==
  \A a \in Pos, b \in Pos :
    (Before(a, b) /\ applied[a] >= 0 /\ applied[b] >= 0) =>
      applied[b] >= applied[a] + tilemax[a] + 1

\* C2 as claimed: the offset added to a tile's cells is the counter before
\* the tile is counted: 0 for the first tile, and the sum of max_label + 1
\* over the tiles strictly before it otherwise (0, 10, 15, 30 for the
\* largest labels 9, 4, 14, 2 on a grid of 2 by 2 tiles).
C2_OffsetIsSumBefore ==
  \A p \in Pos : applied[p] >= 0 => applied[p] = SumBefore(p)

\* the core spans of the boxes handed to rpatch_map partition the region
GridPartitions ==
  /\ \A i \in 1..Len(bbox_list) :
       LET sei == get_start_end_index(rows, bbox_list[i])
       IN /\ \A j \in 1..Len(sei) :
               /\ sei[j].r_start = sei[1].r_start /\ sei[j].r_end = sei[1].r_end
               /\ sei[j].c_start < sei[j].c_end
               /\ sei[j].c_start = (IF j = 1 THEN 0 ELSE sei[j-1].c_end)
          /\ sei[Len(sei)].c_end = cols
          /\ sei[1].r_start < sei[1].r_end
          /\ sei[1].r_start =
               (IF i = 1 THEN 0
                ELSE get_start_end_index(rows, bbox_list[i-1])[1].r_end)
  /\ get_start_end_index(rows, bbox_list[Len(bbox_list)])[1].r_end = rows

\* C3: on a grid whose core spans partition the region, rpatch_map puts
\* one row per region row, in ascending row order; in every row put each
\* column has been assigned exactly once, with the cell of the one tile
\* whose core span holds it, read at that row and column, plus that tile's
\* offset; when rpatch_map closes every region row has been put.
C3_EveryCellOnce ==
  GridPartitions =>
    /\ Len(out) <= rows
    /\ \A n \in 1..Len(out) :
         /\ out[n].row = n - 1
         /\ \A c \in 0..(cols - 1) :
              /\ out[n].writes[c] = 1
              /\ out[n].cells[c].tile = Owner(n - 1, c)
              /\ out[n].cells[c].row = n - 1
              /\ out[n].cells[c].col = c
              /\ out[n].cells[c].val =
                   Cell(TileRaster(Owner(n - 1, c), tilemax[Owner(n - 1, c)]),
                        n - 1, c).val + applied[Owner(n - 1, c)]
    /\ ppc = "closed" => Len(out) = rows

C3_Witness ==
  /\ ppc = "closed" /\ GridPartitions
  /\ rows = 3 /\ cols = 3 /\ height = 2 /\ width = 2 /\ overlap = 1
  /\ Len(out) = 3
  /\ out[3].cells[2].tile = <<2, 2>>
  /\ out[1].cells[1].tile = <<1, 1>>

\* C8: whatever the order in which the tile workers finish, rpatch_map
\* starts only when every worker has written its raster, opens the raster
\* of each tile by the tile's grid position, gives each tile the offset
\* its row-major position and the tiles' largest labels determine, and
\* puts rows that those positions and labels determine.
C8_OrderIndependent ==
  /\ ppc # "dispatch" =>
       /\ \A p \in Pos : mapsets[p] = TileRaster(p, tilemax[p])
       /\ Len(completed) = Cardinality(Pos)
  /\ \A j \in 1..Len(rrasts) : rrasts[j] = TileRaster(<<trow, j>>, tilemax[<<trow, j>>])
  /\ \A p \in Pos : applied[p] >= 0 => applied[p] = SumUpTo(p)
  /\ \A n \in 1..Len(out) : \A c \in 0..(cols - 1) :
       out[n].cells[c] =
         [val |-> Cell(TileRaster(Owner(n - 1, c), tilemax[Owner(n - 1, c)]),
                       n - 1, c).val + SumUpTo(Owner(n - 1, c)),
          tile |-> Owner(n - 1, c), row |-> n - 1, col |-> c]

C8_Witness ==
  /\ ppc = "closed"
  /\ Cardinality(Pos) = 4 /\ Len(bbox_list) = 2
  /\ completed = <<<<2, 2>>, <<1, 2>>, <<2, 1>>, <<1, 1>>>>
  /\ tilemax[<<1, 1>>] = 9 /\ tilemax[<<1, 2>>] = 4
  /\ applied[<<2, 2>>] >= 0

====
